---- MODULE Spec2Model ----
(***************************************************************************)
(* A model of f_and_d_values.py: the script loads a wide per-read table of *)
(* p-values, refuses duplicate read ids, reshapes the table to long form,  *)
(* aggregates per position and writes the per-position table.              *)
(*                                                                         *)
(* P-values are modelled in hundredths (0.05 is 5, 0.40 is 40), so that    *)
(* the comparisons against the thresholds are exact.  A float produced by  *)
(* a division is the pair <<numerator, denominator>>; <<0, 0>> is the      *)
(* not-a-number that pandas gives for 0/0.                                 *)
(***************************************************************************)
EXTENDS Integers, Sequences, FiniteSets

VARIABLES file, pc, wide, raw, results, out, error, stages, rewide

vars == <<file, pc, wide, raw, results, out, error, stages, rewide>>

(***************************************************************************)
(* Bounds and input domains                                                *)
(***************************************************************************)
MaxReads == 2

\* the p-values a cell may hold, in hundredths: below, equal to the lower
\* threshold, strictly between, equal to the upper threshold, above
PVals == {0, 5, 20, 40, 60}

\* the header rows tried: column order varies, a lone column too
Headers == {<<0, 1>>, <<1, 0>>, <<1>>}

(***************************************************************************)
(* Constants of the script                                                 *)
(***************************************************************************)
LOWER_THRESH == 5
UPPER_THRESH == 40

\* an empty cell of the CSV file, as read_csv loads it
NaN == -1

\* the float results of a division by zero
NaNFloat == <<0, 0>>
InfFloat == <<1, 0>>

\* a dataframe that does not exist (never assigned, or deleted by `del`)
NoFrame == [index |-> <<>>, columns |-> <<>>, data |-> <<>>]

NoOutput == [exists |-> FALSE, header |-> FALSE, rows |-> <<>>]

(***************************************************************************)
(* Helpers                                                                 *)
(***************************************************************************)
Min(S) == CHOOSE x \in S : \A y \in S : x <= y

RECURSIVE SortedSeq(_)
SortedSeq(S) == IF S = {} THEN <<>>
                ELSE <<Min(S)>> \o SortedSeq(S \ {Min(S)})

Range(s) == {s[i] : i \in DOMAIN s}

(***************************************************************************)
(* subroutines                                                             *)
(***************************************************************************)
\* load_csv: rows keep the file's order, the first column is the index,
\* the header labels become the integer column labels
load_csv(f) ==
    [index   |-> [i \in 1..Len(f.rows) |-> f.rows[i].read_id],
     columns |-> f.header,
     data    |-> [i \in 1..Len(f.rows) |-> f.rows[i].cells]]

\* read_csv raises on an unreadable path, astype(int) on a label that is
\* not an integer
load_fails(f) == ~f.readable \/ ~f.intHeader

load_error(f) == IF ~f.readable THEN "FileNotFoundError" ELSE "ValueError"

\* wide.index.is_unique
\* a guard that never finds a duplicate
is_unique_always(index) == Len(index) >= 0

is_unique(index) ==
    \A i, j \in DOMAIN index : i # j => index[i] # index[j]

\* df.stack(): every cell, row by row, columns in the frame's order
stack(df) ==
    LET n == Len(df.index)
        m == Len(df.columns)
    IN  [k \in 1..(n * m) |->
            [read_id |-> df.index[((k - 1) \div m) + 1],
             pos_0b  |-> df.columns[((k - 1) % m) + 1],
             pval    |-> df.data[((k - 1) \div m) + 1][((k - 1) % m) + 1]]]

\* a cell test by truthiness, which takes a p-value of 0 for an absent cell
notna_truthy(o) == o.pval # NaN /\ o.pval # 0

notna(o) == o.pval # NaN

\* .dropna()
dropna(s) == SelectSeq(s, notna)

longify(df) == dropna(stack(df))

\* widify: set_index(['read_id', 'pos_0b']).unstack().droplevel(0, axis=1);
\* unstack sorts both axes and fills the cells that have no record with NaN
widify(long) ==
    LET idx  == SortedSeq({long[i].read_id : i \in DOMAIN long})
        cols == SortedSeq({long[i].pos_0b : i \in DOMAIN long})
        cell(r, c) ==
            IF \E i \in DOMAIN long : long[i].read_id = r /\ long[i].pos_0b = c
            THEN LET i == CHOOSE i \in DOMAIN long :
                              long[i].read_id = r /\ long[i].pos_0b = c
                 IN  long[i].pval
            ELSE NaN
    IN  [index   |-> idx,
         columns |-> cols,
         data    |-> [i \in DOMAIN idx |->
                        [j \in DOMAIN cols |-> cell(idx[i], cols[j])]]]

(***************************************************************************)
(* compute d and f values                                                  *)
(***************************************************************************)
\* a non-strict lower comparison
below_lower_thresh_le(o) == o.pval <= LOWER_THRESH

below_lower_thresh(o) == o.pval < LOWER_THRESH

\* a non-strict upper comparison
above_upper_thresh_ge(o) == o.pval >= UPPER_THRESH

above_upper_thresh(o) == o.pval > UPPER_THRESH

\* groupby(..., sort=False): the keys in order of first appearance
RECURSIVE first_seen(_)
first_seen(long) ==
    IF long = <<>> THEN <<>>
    ELSE LET init == first_seen(SubSeq(long, 1, Len(long) - 1))
             p    == long[Len(long)].pos_0b
         IN  IF p \in Range(init) THEN init ELSE Append(init, p)

group_keys_unsorted(long) == first_seen(long)

\* the keys of groupby('pos_0b'): the distinct positions, sorted
group_keys(long) == SortedSeq({long[i].pos_0b : i \in DOMAIN long})

group(long, p) == {i \in DOMAIN long : long[i].pos_0b = p}

\* the sums of the two boolean columns over a group
num_below_lower_thresh(long, p) ==
    Cardinality({i \in group(long, p) : below_lower_thresh(long[i])})

num_above_upper_thresh(long, p) ==
    Cardinality({i \in group(long, p) : above_upper_thresh(long[i])})

\* count of the read_id column over a group
agg_count(long, p) == Cardinality(group(long, p))

\* a division that answers 0 for 0/0
truediv_zero(x, y) == IF y # 0 THEN <<x, y>> ELSE <<0, 1>>

\* the division of two integer columns
truediv(x, y) ==
    IF y # 0 THEN <<x, y>>
    ELSE IF x = 0 THEN NaNFloat ELSE InfFloat

\* an f-value with a pseudo-count of its own
f_value_plus_one(b, a) == truediv(b, b + a + 1)

f_value(b, a) == truediv(b, b + a)

\* a d-value without the pseudo-count
d_value_undamped(b, a) == truediv(b, b + a)

d_value(b, a) == truediv(b, b + a + 2)

stats_row(long, p) ==
    LET b == num_below_lower_thresh(long, p)
        a == num_above_upper_thresh(long, p)
        c == agg_count(long, p)
    IN  [pos_0b                  |-> p,
         num_below_lower_thresh  |-> b,
         num_above_upper_thresh  |-> a,
         covg                    |-> c,
         frac_below_lower_thresh |-> truediv(b, c),
         frac_above_upper_thresh |-> truediv(a, c),
         f_value                 |-> f_value(b, a),
         d_value                 |-> d_value(b, a)]

compute_results(long) ==
    LET keys == group_keys(long)
    IN  [k \in DOMAIN keys |-> stats_row(long, keys[k])]

(***************************************************************************)
(* The input files                                                         *)
(***************************************************************************)
Cells == PVals \cup {NaN}

\* read ids up to equality: the first row is read 1 and every row is either
\* a read seen in an earlier row or the next new one
IdSeqs(n) ==
    {ids \in [1..n -> 1..n] :
        /\ ids[1] = 1
        /\ \A i \in 2..n : \E j \in 1..(i - 1) : ids[i] <= ids[j] + 1}

\* a file of n rows under header h, with read ids ids and cells cs
TableFile(n, h, ids, cs) ==
    [readable  |-> TRUE,
     intHeader |-> TRUE,
     header    |-> h,
     rows      |-> [i \in 1..n |-> [read_id |-> ids[i], cells |-> cs[i]]]]

\* the end-to-end example: 3 reads over 2 positions, with
\* pos 0: 0.01, 0.50, 0.60 and pos 1: 0.02, 0.03, missing
ExampleFile ==
    [readable  |-> TRUE,
     intHeader |-> TRUE,
     header    |-> <<0, 1>>,
     rows      |-> << [read_id |-> 1, cells |-> <<1, 2>>],
                      [read_id |-> 2, cells |-> <<50, 3>>],
                      [read_id |-> 3, cells |-> <<60, NaN>>] >>]

MissingFile ==
    [readable |-> FALSE, intHeader |-> TRUE, header |-> <<>>, rows |-> <<>>]

BadHeaderFile ==
    [readable  |-> TRUE,
     intHeader |-> FALSE,
     header    |-> <<0>>,
     rows      |-> << [read_id |-> 1, cells |-> <<0>>] >>]

(***************************************************************************)
(* The run of the script                                                   *)
(***************************************************************************)
Init ==
    /\ \/ \E n \in 1..MaxReads : \E h \in Headers :
            \E ids \in IdSeqs(n) : \E cs \in [1..n -> [1..Len(h) -> Cells]] :
                file = TableFile(n, h, ids, cs)
       \/ file \in {ExampleFile, MissingFile, BadHeaderFile}
    /\ pc = "load"
    /\ wide = NoFrame
    /\ raw = <<>>
    /\ results = <<>>
    /\ out = NoOutput
    /\ error = "none"
    /\ stages = <<>>
    /\ rewide = NoFrame

\* wide = load_csv(filepath_to_read)
Load ==
    /\ pc = "load"
    /\ stages' = Append(stages, "load")
    /\ IF load_fails(file)
       THEN /\ pc' = "failed"
            /\ error' = load_error(file)
            /\ wide' = wide
       ELSE /\ pc' = "guard"
            /\ wide' = load_csv(file)
            /\ error' = error
    /\ UNCHANGED <<file, raw, results, out, rewide>>

\* if not wide.index.is_unique: raise NotImplementedError(...)
Guard ==
    /\ pc = "guard"
    /\ stages' = Append(stages, "guard")
    /\ IF is_unique(wide.index)
       THEN /\ pc' = "longify"
            /\ error' = error
       ELSE /\ pc' = "failed"
            /\ error' = "NotImplementedError"
    /\ UNCHANGED <<file, wide, raw, results, out, rewide>>

\* raw = longify(wide); del wide
Longify ==
    /\ pc = "longify"
    /\ stages' = Append(stages, "longify")
    /\ raw' = longify(wide)
    /\ wide' = NoFrame
    /\ pc' = "aggregate"
    /\ UNCHANGED <<file, results, out, error, rewide>>

\* results = raw.assign(...).groupby('pos_0b').agg(...).reset_index().assign(...)
Aggregate ==
    /\ pc = "aggregate"
    /\ stages' = Append(stages, "aggregate")
    /\ results' = compute_results(raw)
    /\ pc' = "write"
    /\ UNCHANGED <<file, wide, raw, out, error, rewide>>

\* results.to_csv(filepath_to_write, index=False): the file is opened for
\* writing at its final path, then the header and the rows are written to
\* it.  The open may fail (nothing is created); a write may fail after any
\* number of lines (the lines written so far stay in the file).
Write ==
    /\ pc = "write"
    /\ stages' = Append(stages, "write")
    /\ \/ /\ out' = [exists |-> TRUE, header |-> TRUE, rows |-> results]
          /\ pc' = "done"
          /\ error' = error
       \/ /\ out' = out
          /\ pc' = "failed"
          /\ error' = "OSError"
       \/ /\ \E k \in 0..Len(results) :
                out' = [exists |-> TRUE,
                        header |-> TRUE,
                        rows   |-> SubSeq(results, 1, k)]
          /\ pc' = "failed"
          /\ error' = "OSError"
       \/ /\ out' = [exists |-> TRUE, header |-> FALSE, rows |-> <<>>]
          /\ pc' = "failed"
          /\ error' = "OSError"
    /\ UNCHANGED <<file, wide, raw, results, rewide>>

Next == Load \/ Guard \/ Longify \/ Aggregate \/ Write

Spec == Init /\ [][Next]_vars

(***************************************************************************)
(* The round trip of the two reshaping subroutines, which the script       *)
(* itself never takes: longify applied to a loaded table with unique read  *)
(* ids in any order, then widify applied to the result, also when the long *)
(* table has no record (unstack then gives a frame without rows and        *)
(* columns).                                                               *)
(***************************************************************************)
UniqueIdSeqs(n) ==
    {ids \in [1..n -> 1..MaxReads] : is_unique(ids)}

InitRT ==
    /\ \E n \in 1..MaxReads : \E h \in Headers :
         \E ids \in UniqueIdSeqs(n) : \E cs \in [1..n -> [1..Len(h) -> Cells]] :
            /\ file = TableFile(n, h, ids, cs)
            /\ wide = load_csv(TableFile(n, h, ids, cs))
    /\ pc = "rt_longify"
    /\ raw = <<>>
    /\ results = <<>>
    /\ out = NoOutput
    /\ error = "none"
    /\ stages = <<>>
    /\ rewide = NoFrame

RTLongify ==
    /\ pc = "rt_longify"
    /\ raw' = longify(wide)
    /\ pc' = "rt_widify"
    /\ UNCHANGED <<file, wide, results, out, error, stages, rewide>>

RTWidify ==
    /\ pc = "rt_widify"
    /\ rewide' = widify(raw)
    /\ pc' = "rt_done"
    /\ UNCHANGED <<file, wide, raw, results, out, error, stages>>

NextRT == RTLongify \/ RTWidify

SpecRT == InitRT /\ [][NextRT]_vars

(***************************************************************************)
(* Vocabulary of the properties: what the input file holds                 *)
(***************************************************************************)
\* the stage has run in this execution
Ran(stage) == \E k \in DOMAIN stages : stages[k] = stage

Ended == pc \in {"done", "failed"}

\* the column of the file that carries position p
ColOf(f, p) == CHOOSE j \in DOMAIN f.header : f.header[j] = p

FilePositions(f) == {f.header[j] : j \in DOMAIN f.header}

CellAt(f, i, p) == f.rows[i].cells[ColOf(f, p)]

\* the rows of the file with a p-value at position p
PresentAt(f, p) == {i \in DOMAIN f.rows : CellAt(f, i, p) # NaN}

\* the positions with at least one p-value
CoveredPositions(f) == {p \in FilePositions(f) : PresentAt(f, p) # {}}

NumBelow(f, p) == Cardinality({i \in PresentAt(f, p) : CellAt(f, i, p) < LOWER_THRESH})

NumAbove(f, p) == Cardinality({i \in PresentAt(f, p) : CellAt(f, i, p) > UPPER_THRESH})

NumStrictlyBetween(f, p) ==
    Cardinality({i \in PresentAt(f, p) :
        LOWER_THRESH < CellAt(f, i, p) /\ CellAt(f, i, p) < UPPER_THRESH})

NumWithin(f, p) ==
    Cardinality({i \in PresentAt(f, p) :
        LOWER_THRESH <= CellAt(f, i, p) /\ CellAt(f, i, p) <= UPPER_THRESH})

NumOnThreshold(f, p) ==
    Cardinality({i \in PresentAt(f, p) : CellAt(f, i, p) \in {LOWER_THRESH, UPPER_THRESH}})

HasDuplicateReadId(f) ==
    \E i, j \in DOMAIN f.rows : i # j /\ f.rows[i].read_id = f.rows[j].read_id

\* the rows of the result table for position p
RowsFor(p) == {k \in DOMAIN results : results[k].pos_0b = p}

\* floats: a number has a nonzero denominator
IsNumber(x) == x[2] # 0

IsNaNFloat(x) == x = NaNFloat

\* x is the number n/d
Equals(x, n, d) == IsNumber(x) /\ x[1] * d = n * x[2]

SameFloat(x, y) ==
    \/ IsNaNFloat(x) /\ IsNaNFloat(y)
    \/ IsNumber(x) /\ IsNumber(y) /\ x[1] * y[2] = y[1] * x[2]

\* x < y for two numbers with positive denominators
Less(x, y) == IsNumber(x) /\ IsNumber(y) /\ x[1] * y[2] < y[1] * x[2]

\* a position all of whose p-values lie within the thresholds
ZeroBucket(f, p) ==
    /\ p \in CoveredPositions(f)
    /\ NumBelow(f, p) = 0
    /\ NumAbove(f, p) = 0

\* the name the specification gives to the failure that the guard raises
DuplicateKeyError == "NotImplementedError"

(***************************************************************************)
(* Properties                                                              *)
(***************************************************************************)

\* C1 (as stated): a position whose p-values all lie within the thresholds
\* still gets a row, and in that row f_value and d_value are both
\* not-a-number.
C1_ZeroBucketBothNaN ==
    Ran("aggregate") =>
        \A p \in FilePositions(file) :
            ZeroBucket(file, p) =>
                /\ RowsFor(p) # {}
                /\ \A k \in RowsFor(p) :
                    /\ IsNaNFloat(results[k].f_value)
                    /\ IsNaNFloat(results[k].d_value)

\* C1 (amended): a position whose p-values all lie within the thresholds
\* still gets a row, with both bucket counts 0 and covg >= 1; in that row
\* f_value is not-a-number (0/0) and d_value is the number 0 (0/2).
C1_ZeroBucketRow ==
    Ran("aggregate") =>
        \A p \in FilePositions(file) :
            ZeroBucket(file, p) =>
                /\ RowsFor(p) # {}
                /\ \A k \in RowsFor(p) :
                    /\ results[k].num_below_lower_thresh = 0
                    /\ results[k].num_above_upper_thresh = 0
                    /\ results[k].covg >= 1
                    /\ IsNaNFloat(results[k].f_value)
                    /\ Equals(results[k].d_value, 0, 1)

C1_Witness ==
    /\ Ran("aggregate")
    /\ \E p \in FilePositions(file) :
        /\ ZeroBucket(file, p)
        /\ \E k \in RowsFor(p) : results[k].covg = 2

\* C2 (as stated): in every row with b + a > 0, 0 < d_value < 1 and
\* d_value < f_value.
C2_StrictDampening ==
    \A k \in DOMAIN results :
        LET r == results[k]
        IN  r.num_below_lower_thresh + r.num_above_upper_thresh > 0 =>
                /\ Less(<<0, 1>>, r.d_value)
                /\ Less(r.d_value, <<1, 1>>)
                /\ Less(r.d_value, r.f_value)

\* C2 (amended): in every row with b + a > 0, 0 <= d_value < 1 and
\* d_value <= f_value; d_value > 0 and d_value < f_value hold exactly when
\* b > 0 (with b = 0 both d_value and f_value are 0).
C2_Dampening ==
    \A k \in DOMAIN results :
        LET r == results[k]
            b == r.num_below_lower_thresh
            a == r.num_above_upper_thresh
        IN  /\ b >= 0
            /\ a >= 0
            /\ b + a > 0 =>
                /\ ~Less(r.d_value, <<0, 1>>)
                /\ Less(r.d_value, <<1, 1>>)
                /\ ~Less(r.f_value, r.d_value)
                /\ Less(<<0, 1>>, r.d_value) <=> b > 0
                /\ Less(r.d_value, r.f_value) <=> b > 0
                /\ b = 0 => Equals(r.d_value, 0, 1) /\ Equals(r.f_value, 0, 1)

C2_Witness ==
    \E k, l \in DOMAIN results :
        /\ results[k].num_below_lower_thresh = 0
        /\ results[k].num_above_upper_thresh > 0
        /\ results[l].num_below_lower_thresh > 0
        /\ results[l].num_above_upper_thresh > 0

\* C3: a loaded table with two rows of the same read_id ends the run in the
\* guard's error, right after the load and the guard: nothing is reshaped,
\* aggregated or written, and the output file is never created.
C3_DuplicateRejected ==
    (~load_fails(file) /\ HasDuplicateReadId(file)) =>
        /\ ~Ran("longify") /\ ~Ran("aggregate") /\ ~Ran("write")
        /\ raw = <<>>
        /\ results = <<>>
        /\ out = NoOutput
        /\ Ran("guard") =>
            /\ pc = "failed"
            /\ error = DuplicateKeyError
            /\ stages = <<"load", "guard">>

C3_Witness ==
    /\ HasDuplicateReadId(file)
    /\ pc = "failed"
    /\ error = DuplicateKeyError
    /\ out = NoOutput

\* C4: num_below_lower_thresh counts exactly the p-values < LOWER_THRESH of
\* the position and num_above_upper_thresh exactly those > UPPER_THRESH; a
\* p-value equal to a threshold is in neither count but is in covg.
C4_ThresholdBoundary ==
    Ran("aggregate") =>
        \A k \in DOMAIN results :
            LET r == results[k]
                p == r.pos_0b
            IN  /\ p \in FilePositions(file)
                /\ r.num_below_lower_thresh = NumBelow(file, p)
                /\ r.num_above_upper_thresh = NumAbove(file, p)
                /\ r.covg = Cardinality(PresentAt(file, p))
                /\ r.covg - r.num_below_lower_thresh - r.num_above_upper_thresh
                       >= NumOnThreshold(file, p)

C4_Witness ==
    /\ Ran("aggregate")
    /\ \E k \in DOMAIN results :
        /\ \E i, j \in PresentAt(file, results[k].pos_0b) :
              /\ CellAt(file, i, results[k].pos_0b) = LOWER_THRESH
              /\ CellAt(file, j, results[k].pos_0b) = UPPER_THRESH
        /\ results[k].num_below_lower_thresh = 0
        /\ results[k].num_above_upper_thresh = 0
        /\ results[k].covg = 2

\* C5 (as stated): covg = num_below_lower_thresh + num_above_upper_thresh +
\* the number of p-values of the position strictly between the thresholds.
C5_CoverageStrict ==
    Ran("aggregate") =>
        \A k \in DOMAIN results :
            results[k].covg =
                results[k].num_below_lower_thresh
                + results[k].num_above_upper_thresh
                + NumStrictlyBetween(file, results[k].pos_0b)

\* C5 (amended): covg = num_below_lower_thresh + num_above_upper_thresh +
\* the number of p-values of the position with
\* LOWER_THRESH <= pval <= UPPER_THRESH, the thresholds included.
C5_CoverageInclusive ==
    Ran("aggregate") =>
        \A k \in DOMAIN results :
            results[k].covg =
                results[k].num_below_lower_thresh
                + results[k].num_above_upper_thresh
                + NumWithin(file, results[k].pos_0b)

C5_Witness ==
    /\ Ran("aggregate")
    /\ \E k \in DOMAIN results :
        /\ NumOnThreshold(file, results[k].pos_0b) = 1
        /\ NumStrictlyBetween(file, results[k].pos_0b) = 1
        /\ results[k].covg = 2

\* the frame's cell for read r at position c
FrameCell(df, r, c) ==
    df.data[CHOOSE i \in DOMAIN df.index : df.index[i] = r]
           [CHOOSE j \in DOMAIN df.columns : df.columns[j] = c]

\* the reads and the positions of a frame with at least one p-value
FullRows(df) ==
    {r \in Range(df.index) : \E c \in Range(df.columns) : FrameCell(df, r, c) # NaN}

FullColumns(df) ==
    {c \in Range(df.columns) : \E r \in Range(df.index) : FrameCell(df, r, c) # NaN}

\* C6: widify(longify(W)) has the rows, the columns and the cells of W,
\* whatever the order of the rows and columns, also when a read or a
\* position of W has no p-value at all.
C6_RoundTripAll ==
    pc = "rt_done" =>
        /\ Range(rewide.index) = Range(wide.index)
        /\ Range(rewide.columns) = Range(wide.columns)
        /\ \A r \in Range(wide.index) : \A c \in Range(wide.columns) :
              FrameCell(rewide, r, c) = FrameCell(wide, r, c)

\* What the two subroutines give instead, for every W with unique read ids:
\* widify(longify(W)) has exactly the reads of W with at least one p-value
\* as rows and exactly the positions of W with at least one p-value as
\* columns, each once, and the cells of W there; it has the rows, columns
\* and cells of W when no read and no position of W is without p-values.
RoundTripOfCovered ==
    pc = "rt_done" =>
        /\ Range(rewide.index) = FullRows(wide)
        /\ Range(rewide.columns) = FullColumns(wide)
        /\ is_unique(rewide.index)
        /\ is_unique(rewide.columns)
        /\ \A r \in FullRows(wide) : \A c \in FullColumns(wide) :
              FrameCell(rewide, r, c) = FrameCell(wide, r, c)
        /\ (FullRows(wide) = Range(wide.index)
               /\ FullColumns(wide) = Range(wide.columns)) =>
              /\ Range(rewide.index) = Range(wide.index)
              /\ Range(rewide.columns) = Range(wide.columns)
              /\ \A r \in Range(wide.index) : \A c \in Range(wide.columns) :
                    FrameCell(rewide, r, c) = FrameCell(wide, r, c)

RoundTripReached ==
    /\ pc = "rt_done"
    /\ wide.index = <<2, 1>>
    /\ wide.columns = <<1, 0>>
    /\ FullRows(wide) = {1, 2}
    /\ FullColumns(wide) = {0, 1}
    /\ FrameCell(wide, 2, 0) = NaN
    /\ FrameCell(wide, 1, 0) = 0
    /\ rewide.index = <<1, 2>>
    /\ rewide.columns = <<0, 1>>
    /\ FrameCell(rewide, 2, 0) = NaN

\* C7: the result table has exactly one row for each position with at least
\* one p-value, none for a position without, and its rows are in strictly
\* ascending order of pos_0b, whatever the order of the file's rows and
\* columns.
C7_OutputRows ==
    Ran("aggregate") =>
        /\ {results[k].pos_0b : k \in DOMAIN results} = CoveredPositions(file)
        /\ \A p \in CoveredPositions(file) : Cardinality(RowsFor(p)) = 1
        /\ \A k, l \in DOMAIN results :
              k < l => results[k].pos_0b < results[l].pos_0b

C7_Witness ==
    /\ Ran("aggregate")
    /\ file.header = <<1, 0>>
    /\ CoveredPositions(file) = {0, 1}
    /\ Len(results) = 2
    /\ results[1].pos_0b = 0
    /\ results[2].pos_0b = 1

\* the rows that the specification's end-to-end example expects
ExampleRowsExpected ==
    /\ Len(results) = 2
    /\ results[1].pos_0b = 0
    /\ results[1].num_below_lower_thresh = 1
    /\ results[1].num_above_upper_thresh = 2
    /\ results[1].covg = 3
    /\ Equals(results[1].f_value, 1, 3)
    /\ Equals(results[1].d_value, 1, 5)
    /\ results[2].pos_0b = 1
    /\ results[2].num_below_lower_thresh = 2
    /\ results[2].num_above_upper_thresh = 0
    /\ results[2].covg = 2
    /\ Equals(results[2].f_value, 1, 1)
    /\ Equals(results[2].d_value, 1, 2)

\* C8: in every row with b + a > 0, f_value = b / (b + a) and
\* d_value = b / (b + a + 2), b and a being the bucket counts of the
\* position; two rows with equal bucket counts have equal f_value and equal
\* d_value whatever their covg; the end-to-end example gives the rows
\* (0, 1, 2, 3, 1/3, 1/5) and (1, 2, 0, 2, 1, 1/2).
C8_Formulas ==
    Ran("aggregate") =>
        /\ \A k \in DOMAIN results :
              LET b == NumBelow(file, results[k].pos_0b)
                  a == NumAbove(file, results[k].pos_0b)
              IN  b + a > 0 =>
                    /\ Equals(results[k].f_value, b, b + a)
                    /\ Equals(results[k].d_value, b, b + a + 2)
        /\ \A k, l \in DOMAIN results :
              (/\ results[k].num_below_lower_thresh = results[l].num_below_lower_thresh
               /\ results[k].num_above_upper_thresh = results[l].num_above_upper_thresh) =>
                    /\ SameFloat(results[k].f_value, results[l].f_value)
                    /\ SameFloat(results[k].d_value, results[l].d_value)
        /\ file = ExampleFile => ExampleRowsExpected

C8_Witness ==
    /\ Ran("aggregate")
    /\ file = ExampleFile
    /\ ExampleRowsExpected

\* the result table of the file, complete, in the output file
CompleteOutput ==
    /\ out.exists
    /\ out.header
    /\ out.rows = results
    /\ {out.rows[k].pos_0b : k \in DOMAIN out.rows} = CoveredPositions(file)

\* C9: the stages run in the order load, guard, longify, aggregate, write,
\* none twice, and when the run has ended the output file either holds the
\* complete result table or has not been written at all, also when the run
\* failed, in whatever stage.
C9_AllOrNothing ==
    /\ \E n \in 0..5 :
          stages = SubSeq(<<"load", "guard", "longify", "aggregate", "write">>, 1, n)
    /\ Ended => (out = NoOutput \/ CompleteOutput)

\* C10: longify returns exactly one record (read_id, pos_0b, pval) for each
\* cell that holds a p-value, 0 included, and none for an empty cell, so no
\* (read_id, pos_0b) occurs twice and covg is the number of reads with a
\* p-value at the position.
C10_LongifyExact ==
    /\ Ran("longify") =>
          /\ \A i \in DOMAIN file.rows : \A p \in FilePositions(file) :
                LET recs == {k \in DOMAIN raw :
                                /\ raw[k].read_id = file.rows[i].read_id
                                /\ raw[k].pos_0b = p}
                IN  IF CellAt(file, i, p) = NaN
                    THEN recs = {}
                    ELSE /\ Cardinality(recs) = 1
                         /\ \A k \in recs : raw[k].pval = CellAt(file, i, p)
          /\ \A k \in DOMAIN raw :
                \E i \in DOMAIN file.rows :
                    /\ raw[k].read_id = file.rows[i].read_id
                    /\ raw[k].pos_0b \in FilePositions(file)
                    /\ raw[k].pval # NaN
                    /\ raw[k].pval = CellAt(file, i, raw[k].pos_0b)
    /\ Ran("aggregate") =>
          \A k \in DOMAIN results :
              results[k].covg = Cardinality(PresentAt(file, results[k].pos_0b))

C10_Witness ==
    /\ Ran("aggregate")
    /\ \E i \in DOMAIN file.rows : \E p, q \in FilePositions(file) :
          /\ CellAt(file, i, p) = 0
          /\ CellAt(file, i, q) = NaN
          /\ \E k \in DOMAIN raw :
                raw[k].read_id = file.rows[i].read_id /\ raw[k].pos_0b = p /\ raw[k].pval = 0
          /\ \E k \in RowsFor(p) : results[k].covg = 2

====
